---------------------------- MODULE Spec2Model ----------------------------
(***************************************************************************)
(* BPF super sockets of scapy/arch/bpf/supersocket.py as a state machine.  *)
(*                                                                         *)
(* The state is the attributes of the socket objects (ins, outs, closed,   *)
(* fd_flags, assigned_interface), the class attribute received_frames,     *)
(* the kernel's view of each descriptor (open, file status flags, bound    *)
(* interface) and the process-wide configuration (conf.debug_dissector,    *)
(* the platform flags FREEBSD/NETBSD).  Every method is one action; the    *)
(* variables op, ret and trace record the last call, what it returned or   *)
(* raised, and the system calls and warnings it issued.                    *)
(***************************************************************************)
EXTENDS Integers, Sequences, FiniteSets, TLC

VARIABLES
    FREEBSD,             \* FREEBSD or NETBSD: the wide-timestamp platform
    debug_dissector,     \* conf.debug_dissector
    cls,                 \* socket -> its class
    ins,                 \* socket -> self.ins (descriptor or None)
    outs,                \* socket -> self.outs
    closed,              \* socket -> self.closed
    fd_flags,            \* socket -> self.fd_flags (cached flags or None)
    assigned_interface,  \* socket -> self.assigned_interface
    received_frames,     \* L2bpfListenSocket.received_frames (class attribute)
    dev,                 \* descriptor -> kernel state of the BPF device
    op,                  \* the last call: method, socket, arguments
    ret,                 \* what the last call returned or raised
    trace,               \* system calls and warnings the last call issued
    reads,               \* number of device reads that returned data so far
    decoded,             \* socket -> frames decoded from its own reads, in order
    delivered            \* socket -> frames its recv/nonblock_recv returned, in order

vars == <<FREEBSD, debug_dissector, cls, ins, outs, closed, fd_flags,
          assigned_interface, received_frames, dev, op, ret, trace, reads,
          decoded, delivered>>

---------------------------------------------------------------------------
(* Bounds of the model. *)

\* device reads that return data, over one behaviour
MaxReads == 2
\* frames the kernel packs into one read buffer
MaxFrames == 2
\* length of the descriptor list handed to bpf_select
MaxFds == 2

---------------------------------------------------------------------------
(* Python values. *)

\* None, for the attributes that otherwise hold a non-negative integer
None == -1

Min(a, b) == IF a < b THEN a ELSE b

\* bpf_buffer[a:b] for 0 <= a, 0 <= b: Python clips a slice to the sequence
Slice(s, a, b) == SubSeq(s, a + 1, Min(b, Len(s)))

\* struct.unpack('I', s)[0] and struct.unpack('H', s)[0], native (little-endian)
\* byte order; the caller has checked len(s)
UnpackI(s) == s[1] + 256 * s[2] + 65536 * s[3] + 16777216 * s[4]

UnpackH(s) == s[1] + 256 * s[2]

\* struct.pack('I', n) and struct.pack('H', n)
PackI(n) == << n % 256, (n \div 256) % 256, (n \div 65536) % 256,
               (n \div 16777216) % 256 >>

PackH(n) == << n % 256, (n \div 256) % 256 >>

Zeros(n) == [i \in 1..n |-> 0]

---------------------------------------------------------------------------
(* The frame decoder: bpf_align and extract_frames. *)

\* a length check that lets a header without its last fields through
BPF_HDR_SIZE_short == 20 - 10

\* sizeof(struct bpf_hdr), the least buffer extract_frames looks at
BPF_HDR_SIZE == 20

\* sizeof(long) on FreeBSD and NetBSD, sizeof(int32_t) elsewhere
BPF_ALIGNMENT == IF FREEBSD THEN 8 ELSE 4

bpf_align_unaligned(bh_h, bh_c) == bh_h + bh_c

\* ((x) + (BPF_ALIGNMENT - 1)) & ~(BPF_ALIGNMENT - 1)
bpf_align(bh_h, bh_c) ==
    LET x == bh_h + bh_c
    IN  ((x + (BPF_ALIGNMENT - 1)) \div BPF_ALIGNMENT) * BPF_ALIGNMENT

\* offset of bh_caplen: after a 16-byte timestamp on FreeBSD and NetBSD,
\* after an 8-byte one elsewhere
bh_tstamp_offset == IF FREEBSD THEN 16 ELSE 8

\* the payload byte that the frame class refuses: self.guessed_cls(frame_str)
\* raises on a payload that starts with it
BadByte == 255

Dissects(frame_str) == frame_str = <<>> \/ frame_str[1] # BadByte

\* the class guess_cls fixed at construction (an Ethernet interface)
guessed_cls == "Ether"

\* a fallback frame that drops the bytes it could not dissect
Raw_emptied(frame_str) == [cls |-> "Raw", load |-> <<>>]

\* Raw(frame_str), and self.guessed_cls(frame_str) when it dissects
Raw(frame_str) == [cls |-> "Raw", load |-> frame_str]

Typed(frame_str) == [cls |-> guessed_cls, load |-> frame_str]

\* pkt.payload: the layer above the link header; a Raw packet has none
payload(pkt) ==
    IF pkt.cls = "Raw" THEN [cls |-> "NoPayload", load |-> <<>>]
    ELSE [cls |-> "Payload", load |-> pkt.load]

\* Python's recursion limit, in calls of extract_frames
RecursionLimit == 6

\* extract_frames(bpf_buffer) at recursion depth d: the frames it appends to
\* received_frames, in order, the exception it raises ("none" when it returns)
\* and the number of nested calls it made
RECURSIVE extract_frames_at(_, _)
extract_frames_at(bpf_buffer, d) ==
    LET len_bb     == Len(bpf_buffer)
        off        == bh_tstamp_offset
        caplen_s   == Slice(bpf_buffer, off, off + 4)
        datalen_s  == Slice(bpf_buffer, off + 4, off + 8)
        hdrlen_s   == Slice(bpf_buffer, off + 8, off + 10)
        stop       == [frames |-> <<>>, exc |-> "none", calls |-> 1]
    IN  IF d > RecursionLimit
          THEN [frames |-> <<>>, exc |-> "RuntimeError", calls |-> 0]
        ELSE IF len_bb < BPF_HDR_SIZE THEN stop
        ELSE IF Len(caplen_s) # 4 \/ Len(datalen_s) # 4 \/ Len(hdrlen_s) # 2
          THEN [frames |-> <<>>, exc |-> "struct.error", calls |-> 1]
        ELSE
          LET bh_caplen  == UnpackI(caplen_s)
              bh_datalen == UnpackI(datalen_s)
              bh_hdrlen  == UnpackH(hdrlen_s)
              frame_str  == Slice(bpf_buffer, bh_hdrlen, bh_hdrlen + bh_caplen)
              end        == bpf_align(bh_hdrlen, bh_caplen)
          IN  IF bh_datalen = 0 THEN stop
              ELSE IF ~Dissects(frame_str) /\ debug_dissector
                THEN [frames |-> <<>>, exc |-> "dissect", calls |-> 1]
              ELSE
                LET pkt == IF Dissects(frame_str) THEN Typed(frame_str)
                           ELSE Raw(frame_str)
                IN  IF len_bb - end >= BPF_HDR_SIZE
                      THEN LET r == extract_frames_at(Slice(bpf_buffer, end, len_bb), d + 1)
                           IN  [frames |-> <<pkt>> \o r.frames,
                                exc    |-> r.exc,
                                calls  |-> r.calls + 1]
                    ELSE [frames |-> <<pkt>>, exc |-> "none", calls |-> 1]

extract_frames(bpf_buffer) == extract_frames_at(bpf_buffer, 1)

---------------------------------------------------------------------------
(* What the device hands to os.read: frames laid out as the decoder reads   *)
(* them, a header of bh_hdrlen bytes holding bh_caplen, bh_datalen and      *)
(* bh_hdrlen at the platform's offsets, then bh_caplen bytes of payload,    *)
(* each frame but the last padded to the platform's alignment.              *)

\* the least header that holds the three fields and BPF_HDR_SIZE bytes
MinHdrLen == IF bh_tstamp_offset + 10 > BPF_HDR_SIZE
               THEN bh_tstamp_offset + 10 ELSE BPF_HDR_SIZE

\* a byte of the timestamp, which the decoder skips
TsByte == 9

\* one frame: header of hdrlen bytes, then the captured bytes load, of a
\* packet that was datalen bytes on the wire
EncodeFrame(hdrlen, datalen, load) ==
    [i \in 1..bh_tstamp_offset |-> TsByte]
      \o PackI(Len(load)) \o PackI(datalen) \o PackH(hdrlen)
      \o Zeros(hdrlen - (bh_tstamp_offset + 10))
      \o load

\* BPF_WORDALIGN of the device: the least multiple of the alignment that is
\* at least x
WordAlign(x) ==
    CHOOSE y \in x..(x + BPF_ALIGNMENT - 1) : y % BPF_ALIGNMENT = 0

\* the frame followed by the padding that aligns the next header
Padded(hdrlen, datalen, load) ==
    LET f == EncodeFrame(hdrlen, datalen, load)
    IN  f \o Zeros(WordAlign(Len(f)) - Len(f))

\* a read buffer of the frames fs (records hdrlen, datalen, load), the last
\* one padded or not
RECURSIVE EncodeBuffer(_, _)
EncodeBuffer(fs, padlast) ==
    IF fs = <<>> THEN <<>>
    ELSE IF Len(fs) = 1 /\ ~padlast
      THEN EncodeFrame(fs[1].hdrlen, fs[1].datalen, fs[1].load)
    ELSE Padded(fs[1].hdrlen, fs[1].datalen, fs[1].load)
           \o EncodeBuffer(Tail(fs), padlast)

\* header lengths a device reports on the platform
HdrLens == {MinHdrLen, MinHdrLen + 6}

\* captured payloads; the one starting with BadByte does not dissect
Payloads == {<<>>, <<1>>, <<2, 3, 4>>, <<BadByte, 5>>, <<6, 7, 8, 9, 10>>}

\* a well-formed frame: the header holds the fields, the packet was at least
\* one byte on the wire and no more of it was captured than that
FrameSpecs ==
    {[hdrlen |-> h, datalen |-> IF p = <<>> THEN 1 ELSE Len(p) + t, load |-> p] :
        h \in HdrLens, p \in Payloads, t \in {0}}

RECURSIVE SeqsUpTo(_, _)
SeqsUpTo(S, n) ==
    IF n = 0 THEN {<<>>}
    ELSE LET shorter == SeqsUpTo(S, n - 1)
         IN  shorter \cup {Append(q, x) : q \in shorter, x \in S}

\* the frame lists of well-formed read buffers
FrameLists == SeqsUpTo(FrameSpecs, MaxFrames)

\* the k-th frame of the n-th device read: the payload names the read and the
\* frame, and its length grows with k
DevLoad(n, k, bad) ==
    (IF bad THEN <<BadByte>> ELSE <<>>) \o <<n>> \o [i \in 1..k |-> k]

DevFrames(n, count, badpos) ==
    [k \in 1..count |->
        [hdrlen  |-> MinHdrLen,
         datalen |-> Len(DevLoad(n, k, k = badpos)),
         load    |-> DevLoad(n, k, k = badpos)]]

\* what the n-th read of a device may return: an empty buffer, or up to
\* MaxFrames frames, at most one of which does not dissect
ReadBuffers(n) ==
    {EncodeBuffer(DevFrames(n, count, badpos), FALSE) :
        count \in 0..MaxFrames, badpos \in 0..1}

---------------------------------------------------------------------------
(* The sockets, their descriptors and the configuration. *)

Socks == {"A", "B"}

\* descriptors handed to bpf_select that are not BPF sockets
PlainFds == {"pipe"}

\* the descriptor get_dev_bpf gave each socket
Fd(s) == IF s = "A" THEN 3 ELSE 4

Fds == {Fd(s) : s \in Socks}

Ifaces == {"em0", "em1"}

\* conf.iface
conf_iface == "em0"

\* os.O_RDWR, the flags of a descriptor as get_dev_bpf opens it, and
\* os.O_NONBLOCK
O_RDWR == 2

O_NONBLOCK == 4

NonBlocking(flags) == (flags \div O_NONBLOCK) % 2 = 1

\* flags | os.O_NONBLOCK and flags & ~os.O_NONBLOCK
OrNonblock(flags) == IF NonBlocking(flags) THEN flags ELSE flags + O_NONBLOCK

AndNotNonblock(flags) == IF NonBlocking(flags) THEN flags - O_NONBLOCK ELSE flags

\* return values and exceptions
Returned(v) == [kind |-> "value", val |-> v]

ReturnedNone == [kind |-> "None"]

Raised(e) == [kind |-> "raise", exc |-> e]

\* one system call (or a call the interpreter refuses before the system
\* sees it, fd = None) and one warning()
Sys(call, fd, ok) == [call |-> call, fd |-> fd, ok |-> ok]

\* the BIOCSETIF ioctl that binds the descriptor to an interface
BindEvent(fd, iface, ok) ==
    [call |-> "BIOCSETIF", fd |-> fd, ok |-> ok, iface |-> iface]

Warning == [call |-> "warning"]

Calls(tr, call) == {i \in DOMAIN tr : tr[i].call = call}

\* self.received_frames: no method assigns the attribute on the instance, so
\* the lookup finds the class attribute, one list for every socket
self_received_frames(s) == received_frames

buffered_frames(s) == Len(self_received_frames(s))

\* socket A is an L2bpfSocket, socket B an L3bpfSocket
ClassOf(s) == IF s = "A" THEN "L2bpfSocket" ELSE "L3bpfSocket"

\* None, for the attributes and arguments that otherwise hold a string
Unset == "None"

\* a constructor that turns promiscuous mode on after the other settings
ConfigSteps_promisc_last(promisc, attach) ==
    <<"BIOCSBLEN", "BIOCSETIF", "BIOCIMMEDIATE", "BIOCSHDRCMPLT">>
      \o (IF attach THEN <<"attach_filter">> ELSE <<>>)
      \o (IF promisc THEN <<"BIOCPROMISC">> ELSE <<>>)

\* the device settings __init__ makes, in the order it makes them, for a
\* socket that is promiscuous or not and has a filter to attach or not
ConfigSteps(promisc, attach) ==
    <<"BIOCSBLEN", "BIOCSETIF">>
      \o (IF promisc THEN <<"BIOCPROMISC">> ELSE <<>>)
      \o <<"BIOCIMMEDIATE", "BIOCSHDRCMPLT">>
      \o (IF attach THEN <<"attach_filter">> ELSE <<>>)

Init ==
    /\ FREEBSD \in BOOLEAN
    /\ debug_dissector \in BOOLEAN
    /\ cls = [s \in Socks |-> ClassOf(s)]
    /\ ins = [s \in Socks |-> Fd(s)]
    /\ outs = [s \in Socks |-> Fd(s)]
    /\ closed = [s \in Socks |-> FALSE]
    /\ fd_flags = [s \in Socks |-> None]
    /\ assigned_interface = [s \in Socks |-> conf_iface]
    /\ received_frames = <<>>
    /\ dev = [f \in Fds |-> [open |-> TRUE, flags |-> O_RDWR,
                             iface |-> conf_iface, closes |-> 0,
                             config |-> ConfigSteps(FALSE, FALSE)]]
    /\ op = [name |-> "__init__"]
    /\ ret = ReturnedNone
    /\ trace = <<>>
    /\ reads = 0
    /\ decoded = [s \in Socks |-> <<>>]
    /\ delivered = [s \in Socks |-> <<>>]

---------------------------------------------------------------------------
(* _L2bpfSocket: set_nonblock, get_stats, close. *)

\* the kernel's flags of the socket's descriptor
KFlags(s) == IF ins[s] = None THEN None ELSE dev[ins[s]].flags

\* a set_nonblock that caches the new flags before fcntl has set them
set_nonblock_caching_first(s, c, k, set_flag, getok, setok) ==
    LET fd  == ins[s]
        got == IF c # None THEN [c |-> c, tr |-> <<>>, stop |-> "no"]
               ELSE IF fd = None
                 THEN [c |-> c, tr |-> <<Sys("F_GETFL", None, FALSE)>>,
                       stop |-> "TypeError"]
               ELSE IF ~getok
                 THEN [c |-> c, tr |-> <<Sys("F_GETFL", fd, FALSE), Warning>>,
                       stop |-> "return"]
               ELSE [c |-> k, tr |-> <<Sys("F_GETFL", fd, TRUE)>>, stop |-> "no"]
        new_fd_flags == IF set_flag THEN OrNonblock(got.c)
                        ELSE AndNotNonblock(got.c)
    IN  IF got.stop = "TypeError"
          THEN [cache |-> c, flags |-> k, trace |-> got.tr, exc |-> "TypeError"]
        ELSE IF got.stop = "return"
          THEN [cache |-> c, flags |-> k, trace |-> got.tr, exc |-> "none"]
        ELSE IF fd = None
          THEN [cache |-> new_fd_flags, flags |-> k, exc |-> "none",
                trace |-> got.tr \o <<Sys("F_SETFL", None, FALSE), Warning>>]
        ELSE IF ~setok
          THEN [cache |-> new_fd_flags, flags |-> k, exc |-> "none",
                trace |-> got.tr \o <<Sys("F_SETFL", fd, FALSE), Warning>>]
        ELSE [cache |-> new_fd_flags, flags |-> new_fd_flags, exc |-> "none",
              trace |-> got.tr \o <<Sys("F_SETFL", fd, TRUE)>>]

\* set_nonblock(set_flag) with the cached flags c and the kernel's flags k;
\* getok and setok say whether F_GETFL and F_SETFL succeed.  fcntl refuses
\* None with a TypeError, which the first try (except IOError) lets through
\* and the second (a bare except) turns into a warning.
set_nonblock(s, c, k, set_flag, getok, setok) ==
    LET fd  == ins[s]
        got == IF c # None THEN [c |-> c, tr |-> <<>>, stop |-> "no"]
               ELSE IF fd = None
                 THEN [c |-> c, tr |-> <<Sys("F_GETFL", None, FALSE)>>,
                       stop |-> "TypeError"]
               ELSE IF ~getok
                 THEN [c |-> c, tr |-> <<Sys("F_GETFL", fd, FALSE), Warning>>,
                       stop |-> "return"]
               ELSE [c |-> k, tr |-> <<Sys("F_GETFL", fd, TRUE)>>, stop |-> "no"]
        new_fd_flags == IF set_flag THEN OrNonblock(got.c)
                        ELSE AndNotNonblock(got.c)
    IN  IF got.stop = "TypeError"
          THEN [cache |-> c, flags |-> k, trace |-> got.tr, exc |-> "TypeError"]
        ELSE IF got.stop = "return"
          THEN [cache |-> c, flags |-> k, trace |-> got.tr, exc |-> "none"]
        ELSE IF fd = None
          THEN [cache |-> got.c, flags |-> k, exc |-> "none",
                trace |-> got.tr \o <<Sys("F_SETFL", None, FALSE), Warning>>]
        ELSE IF ~setok
          THEN [cache |-> got.c, flags |-> k, exc |-> "none",
                trace |-> got.tr \o <<Sys("F_SETFL", fd, FALSE), Warning>>]
        ELSE [cache |-> new_fd_flags, flags |-> new_fd_flags, exc |-> "none",
              trace |-> got.tr \o <<Sys("F_SETFL", fd, TRUE)>>]

\* the device table with the flags of the socket's descriptor set
WithFlags(s, flags) ==
    IF ins[s] = None THEN dev ELSE [dev EXCEPT ![ins[s]].flags = flags]

\* the outcomes of F_GETFL that matter: it is called only with no flags cached
GetOutcomes(c) == IF c = None THEN BOOLEAN ELSE {TRUE}

SetNonblock(s) ==
    \E set_flag \in BOOLEAN, getok \in GetOutcomes(fd_flags[s]), setok \in BOOLEAN :
        LET r == set_nonblock(s, fd_flags[s], KFlags(s), set_flag, getok, setok)
        IN  /\ fd_flags' = [fd_flags EXCEPT ![s] = r.cache]
            /\ dev' = WithFlags(s, r.flags)
            /\ op' = [name |-> "set_nonblock", self |-> s, set_flag |-> set_flag]
            /\ ret' = IF r.exc = "none" THEN ReturnedNone ELSE Raised(r.exc)
            /\ trace' = r.trace
            /\ UNCHANGED <<FREEBSD, debug_dissector, cls, ins, outs, closed,
                           assigned_interface, received_frames, reads,
                           decoded, delivered>>

\* get_stats(): ioctl refuses None with a TypeError, which except IOError
\* lets through
get_stats(s, ok) ==
    IF ins[s] = None
      THEN [ret |-> Raised("TypeError"), trace |-> <<Sys("BIOCGSTATS", None, FALSE)>>]
    ELSE IF ok
      THEN [ret |-> Returned("stats"), trace |-> <<Sys("BIOCGSTATS", ins[s], TRUE)>>]
    ELSE [ret |-> Returned("(None, None)"),
          trace |-> <<Sys("BIOCGSTATS", ins[s], FALSE), Warning>>]

GetStats(s) ==
    \E ok \in BOOLEAN :
        /\ op' = [name |-> "get_stats", self |-> s]
        /\ ret' = get_stats(s, ok).ret
        /\ trace' = get_stats(s, ok).trace
        /\ UNCHANGED <<FREEBSD, debug_dissector, cls, ins, outs, closed,
                       fd_flags, assigned_interface, received_frames, dev,
                       reads, decoded, delivered>>

\* close() that releases the descriptor and forgets to record it
close_unrecorded(s) ==
    IF ins[s] # None
      THEN [closed |-> closed[s], ins |-> ins[s],
            dev    |-> [dev EXCEPT ![ins[s]].open = FALSE,
                                   ![ins[s]].closes = @ + 1],
            trace  |-> <<Sys("close", ins[s], TRUE)>>]
      ELSE [closed |-> closed[s], ins |-> ins[s], dev |-> dev, trace |-> <<>>]

\* close(): os.close once, then closed = True and ins = None
close(s) ==
    IF ~closed[s] /\ ins[s] # None
      THEN [closed |-> TRUE, ins |-> None,
            dev    |-> [dev EXCEPT ![ins[s]].open = FALSE,
                                   ![ins[s]].closes = @ + 1],
            trace  |-> <<Sys("close", ins[s], TRUE)>>]
      ELSE [closed |-> closed[s], ins |-> ins[s], dev |-> dev, trace |-> <<>>]

\* an explicit close(), or the finalizer's (__del__ calls close)
Close(s) ==
    \E by \in {"close", "__del__"} :
        /\ closed' = [closed EXCEPT ![s] = close(s).closed]
        /\ ins' = [ins EXCEPT ![s] = close(s).ins]
        /\ dev' = close(s).dev
        /\ op' = [name |-> by, self |-> s]
        /\ ret' = ReturnedNone
        /\ trace' = close(s).trace
        /\ UNCHANGED <<FREEBSD, debug_dissector, cls, outs, fd_flags,
                       assigned_interface, received_frames, reads, decoded,
                       delivered>>

---------------------------------------------------------------------------
(* _L2bpfSocket.__init__. *)

\* the arguments and the configuration __init__ reads
PromiscArgs == {Unset, "True", "False"}

IfaceArgs == {Unset, "em1"}

FilterArgs == {Unset, "", "tcp"}

ExceptFilters == {"", "port 22"}

\* self.promisc: the argument, or conf.sniff_promisc when it is None
self_promisc(promisc, sniff_promisc) ==
    IF promisc = Unset THEN sniff_promisc ELSE promisc = "True"

\* self.iface: the argument, or conf.iface when it is None
self_iface(iface) == IF iface = Unset THEN conf_iface ELSE iface

\* the filter __init__ ends up with: the argument joined with
\* conf.except_filter, when filtering is not disabled
final_filter(filter, nofilter, except_filter) ==
    IF nofilter \/ except_filter = ""
      THEN [expr |-> filter, but |-> ""]
    ELSE IF filter # Unset /\ filter # ""
      THEN [expr |-> filter, but |-> except_filter]
    ELSE [expr |-> "", but |-> except_filter]

\* whether __init__ calls attach_filter
attaches(filter, nofilter, except_filter) ==
    ~nofilter /\ (final_filter(filter, nofilter, except_filter).expr # Unset)

\* attach_filter(self.ins, self.iface, filter): compiles the filter and sets
\* it on the descriptor, or raises
attach_filter(fd, iface, filter, ok) ==
    [call |-> "attach_filter", fd |-> fd, ok |-> ok, iface |-> iface,
     filter |-> filter]

\* the call of one step; failat is the step whose call fails (0: none)
StepEvent(steps, i, fd, iface, filter, failat) ==
    IF steps[i] = "attach_filter" THEN attach_filter(fd, iface, filter, i # failat)
    ELSE IF steps[i] = "BIOCSETIF" THEN BindEvent(fd, iface, i # failat)
    ELSE Sys(steps[i], fd, i # failat)

\* __init__ on the descriptor fd: the settings are made one by one and the
\* first that fails raises; then guess_cls asks for the link type and falls
\* back to Ethernet, with a warning, when that fails
L2bpfSocket_init(fd, promisc, sniff_promisc, iface, filter, nofilter, except_filter, failat, gdltok) ==
    LET steps  == ConfigSteps(self_promisc(promisc, sniff_promisc),
                              attaches(filter, nofilter, except_filter))
        flt    == final_filter(filter, nofilter, except_filter)
        failed == failat \in DOMAIN steps
        last   == IF failed THEN failat ELSE Len(steps)
        done   == IF failed THEN failat - 1 ELSE Len(steps)
        calls  == [i \in 1..last |->
                     StepEvent(steps, i, fd, self_iface(iface), flt, failat)]
        bound  == \E i \in 1..done : steps[i] = "BIOCSETIF"
    IN  [ret      |-> IF failed THEN Raised("Scapy_Exception") ELSE ReturnedNone,
         trace    |-> IF failed THEN calls
                      ELSE calls \o <<Sys("BIOCGDLT", fd, gdltok)>>
                             \o (IF gdltok THEN <<>> ELSE <<Warning>>),
         assigned |-> IF bound THEN self_iface(iface) ELSE Unset,
         config   |-> SubSeq(steps, 1, done)]

\* the most settings a construction makes
MaxSteps == Len(ConfigSteps(TRUE, TRUE))

Construct(s) ==
    /\ ins[s] = None /\ ~closed[s]
    /\ \E promisc \in PromiscArgs, sniff_promisc \in BOOLEAN, iface \in IfaceArgs,
          filter \in FilterArgs, nofilter \in BOOLEAN,
          except_filter \in ExceptFilters, failat \in 0..MaxSteps,
          gdltok \in BOOLEAN :
         LET r == L2bpfSocket_init(Fd(s), promisc, sniff_promisc, iface, filter,
                                   nofilter, except_filter, failat, gdltok)
         IN  /\ ins' = [ins EXCEPT ![s] = Fd(s)]
             /\ outs' = [outs EXCEPT ![s] = Fd(s)]
             /\ assigned_interface' = [assigned_interface EXCEPT ![s] = r.assigned]
             /\ dev' = [dev EXCEPT ![Fd(s)] =
                          [open |-> TRUE, flags |-> O_RDWR, iface |-> r.assigned,
                           closes |-> 0, config |-> r.config]]
             /\ op' = [name |-> "__init__", self |-> s, promisc |-> promisc,
                       sniff_promisc |-> sniff_promisc, iface |-> iface,
                       filter |-> filter, nofilter |-> nofilter,
                       except_filter |-> except_filter]
             /\ ret' = r.ret
             /\ trace' = r.trace
    /\ UNCHANGED <<FREEBSD, debug_dissector, cls, closed, fd_flags,
                   received_frames, reads, decoded, delivered>>

---------------------------------------------------------------------------
(* L2bpfListenSocket: get_frame and recv. *)

\* get_frame() on the queue q: what it returns, the queue it leaves and the
\* frame it took; an L3bpfSocket hands out the frame's payload
get_frame(s, q) ==
    IF q # <<>>
      THEN [ret    |-> Returned(IF cls[s] = "L3bpfSocket" THEN payload(Head(q))
                                ELSE Head(q)),
            queue  |-> Tail(q),
            popped |-> <<Head(q)>>]
      ELSE [ret |-> ReturnedNone, queue |-> q, popped |-> <<>>]

\* what os.read(self.ins, x) may do on a descriptor with the given flags:
\* fail (EAGAIN only in non-blocking mode), or return the device's next
\* buffer; os.read refuses None with a TypeError.  With frames queued the
\* caller does not read.
ReadOutcomes(s, flags) ==
    IF buffered_frames(s) # 0 THEN {[kind |-> "unread"]}
    ELSE IF ins[s] = None THEN {[kind |-> "TypeError"]}
    ELSE {[kind |-> "EIO"]}
           \cup (IF NonBlocking(flags) THEN {[kind |-> "EAGAIN"]} ELSE {})
           \cup (IF reads < MaxReads
                   THEN {[kind |-> "data", buf |-> b] : b \in ReadBuffers(reads + 1)}
                   ELSE {})

ReadEvent(fd, ok, data) == [call |-> "read", fd |-> fd, ok |-> ok, data |-> data]

\* an os.read that raised EnvironmentError with the given errno
ReadError(fd, e) ==
    [call |-> "read", fd |-> fd, ok |-> FALSE, data |-> <<>>, errno |-> e]

\* a handler that reports every failed read, a would-block one too
read_failed_warning(s, e) ==
    [ret |-> ReturnedNone, queue |-> self_received_frames(s), popped |-> <<>>,
     got |-> <<>>, read |-> 0, trace |-> <<ReadError(ins[s], e), Warning>>]

\* recv's except EnvironmentError: return None, after a warning unless the
\* errno is EAGAIN
read_failed(s, e) ==
    [ret |-> ReturnedNone, queue |-> self_received_frames(s), popped |-> <<>>,
     got |-> <<>>, read |-> 0,
     trace |-> IF e = "EAGAIN" THEN <<ReadError(ins[s], e)>>
               ELSE <<ReadError(ins[s], e), Warning>>]

\* recv() that reads the device whether or not frames are queued
recv_reading_first(s, rd) ==
    LET q == self_received_frames(s)
        x == extract_frames(rd.buf)
        g == get_frame(s, q \o x.frames)
    IN  IF rd.kind = "data" /\ x.exc = "none"
          THEN [ret |-> g.ret, queue |-> g.queue, popped |-> g.popped,
                got |-> x.frames, read |-> 1,
                trace |-> <<ReadEvent(ins[s], TRUE, rd.buf)>>]
        ELSE [ret |-> get_frame(s, q).ret, queue |-> get_frame(s, q).queue,
              popped |-> get_frame(s, q).popped, got |-> <<>>, read |-> 0,
              trace |-> <<>>]

\* L2bpfListenSocket.recv with the read outcome rd: the value returned or the
\* exception raised, the queue left, the frame taken from it, the frames
\* decoded and the calls made
recv(s, rd) ==
    LET q == self_received_frames(s)
    IN  IF buffered_frames(s) # 0
          THEN [ret |-> get_frame(s, q).ret, queue |-> get_frame(s, q).queue,
                popped |-> get_frame(s, q).popped, got |-> <<>>, read |-> 0,
                trace |-> <<>>]
        ELSE IF rd.kind = "TypeError"
          THEN [ret |-> Raised("TypeError"), queue |-> q, popped |-> <<>>,
                got |-> <<>>, read |-> 0,
                trace |-> <<ReadEvent(None, FALSE, <<>>)>>]
        ELSE IF rd.kind \in {"EAGAIN", "EIO"}
          THEN read_failed(s, rd.kind)
        ELSE
          LET x == extract_frames(rd.buf)
              g == get_frame(s, q \o x.frames)
          IN  IF x.exc # "none"
                THEN [ret |-> Raised(x.exc), queue |-> q \o x.frames,
                      popped |-> <<>>, got |-> x.frames, read |-> 1,
                      trace |-> <<ReadEvent(ins[s], TRUE, rd.buf)>>]
              ELSE [ret |-> g.ret, queue |-> g.queue, popped |-> g.popped,
                    got |-> x.frames, read |-> 1,
                    trace |-> <<ReadEvent(ins[s], TRUE, rd.buf)>>]

Recv(s) ==
    \E rd \in ReadOutcomes(s, KFlags(s)) :
        LET r == recv(s, rd)
        IN  /\ received_frames' = r.queue
            /\ reads' = reads + r.read
            /\ decoded' = [decoded EXCEPT ![s] = @ \o r.got]
            /\ delivered' = [delivered EXCEPT ![s] = @ \o r.popped]
            /\ op' = [name |-> "recv", self |-> s]
            /\ ret' = r.ret
            /\ trace' = r.trace
            /\ UNCHANGED <<FREEBSD, debug_dissector, cls, ins, outs, closed,
                           fd_flags, assigned_interface, dev>>

---------------------------------------------------------------------------
(* L2bpfSocket: send and nonblock_recv. *)

\* os.write(self.outs, str(x)): outs keeps the descriptor number close()
\* released, and a write to it fails
L2bpfSocket_send(s, wok) ==
    IF dev[outs[s]].open /\ wok
      THEN [ret |-> Returned("nbytes"), trace |-> <<Sys("write", outs[s], TRUE)>>]
      ELSE [ret |-> Raised("OSError"), trace |-> <<Sys("write", outs[s], FALSE)>>]

\* nonblock_recv(): the result of the whole call, given the outcomes of the
\* two set_nonblock calls and of the read between them
nonblock_recv(s, g1, s1, rd, g2, s2) ==
    LET q == self_received_frames(s)
        a == set_nonblock(s, fd_flags[s], KFlags(s), TRUE, g1, s1)
        r == recv(s, rd)
        b == set_nonblock(s, a.cache, a.flags, FALSE, g2, s2)
    IN  IF buffered_frames(s) # 0
          THEN [ret |-> get_frame(s, q).ret, queue |-> get_frame(s, q).queue,
                popped |-> get_frame(s, q).popped, got |-> <<>>, read |-> 0,
                trace |-> <<>>, cache |-> fd_flags[s], flags |-> KFlags(s)]
        ELSE IF a.exc # "none"
          THEN [ret |-> Raised(a.exc), queue |-> q, popped |-> <<>>,
                got |-> <<>>, read |-> 0, trace |-> a.trace,
                cache |-> a.cache, flags |-> a.flags]
        ELSE IF r.ret.kind = "raise"
          THEN [ret |-> r.ret, queue |-> r.queue, popped |-> r.popped,
                got |-> r.got, read |-> r.read, trace |-> a.trace \o r.trace,
                cache |-> a.cache, flags |-> a.flags]
        ELSE [ret |-> IF b.exc = "none" THEN r.ret ELSE Raised(b.exc),
              queue |-> r.queue, popped |-> r.popped, got |-> r.got,
              read |-> r.read, trace |-> a.trace \o r.trace \o b.trace,
              cache |-> b.cache, flags |-> b.flags]

NonblockRecv(s) ==
    /\ cls[s] \in {"L2bpfSocket", "L3bpfSocket"}
    /\ \E g1 \in GetOutcomes(fd_flags[s]), s1 \in BOOLEAN :
         LET a == set_nonblock(s, fd_flags[s], KFlags(s), TRUE, g1, s1)
         IN  \E rd \in ReadOutcomes(s, a.flags), g2 \in GetOutcomes(a.cache),
                s2 \in BOOLEAN :
               LET r == nonblock_recv(s, g1, s1, rd, g2, s2)
               IN  /\ received_frames' = r.queue
                   /\ reads' = reads + r.read
                   /\ decoded' = [decoded EXCEPT ![s] = @ \o r.got]
                   /\ delivered' = [delivered EXCEPT ![s] = @ \o r.popped]
                   /\ fd_flags' = [fd_flags EXCEPT ![s] = r.cache]
                   /\ dev' = WithFlags(s, r.flags)
                   /\ op' = [name |-> "nonblock_recv", self |-> s]
                   /\ ret' = r.ret
                   /\ trace' = r.trace
                   /\ UNCHANGED <<FREEBSD, debug_dissector, cls, ins, outs,
                                  closed, assigned_interface>>

---------------------------------------------------------------------------
(* L3bpfSocket.send. *)

\* destinations; the routing tables have no route to the last one
Dsts == {"d1", "d2", "dx"}

RouteFails == "no route"

\* conf.route.route(dst)[0] and conf.route6.route(dst)[0]
route(dst) ==
    IF dst = "d1" THEN "em0" ELSE IF dst = "d2" THEN "em1" ELSE RouteFails

route6(dst) ==
    IF dst = "d1" THEN "em1" ELSE IF dst = "d2" THEN "em0" ELSE RouteFails

\* packets by class: IP, IPv6, or neither
Families == {"IP", "IPv6", "ARP"}

Pkts == [family : Families, dst : Dsts]

\* iff as send() computes it: "if IPv6 ... if IP ... else", so the else of
\* the second if also runs for an IPv6 packet, after its route lookup
resolve_iff(pkt) ==
    LET first == IF pkt.family = "IPv6" THEN route6(pkt.dst) ELSE "unbound"
    IN  IF first = RouteFails THEN RouteFails
        ELSE IF pkt.family = "IP" THEN route(pkt.dst)
        ELSE conf_iface

\* whether send() issues the BIOCSETIF ioctl for the interface iff
needs_rebind_always(s, iff) == TRUE

needs_rebind(s, iff) == assigned_interface[s] # iff

\* a send that records the interface before the ioctl has bound it
L3bpfSocket_send_assigning_first(s, pkt, bindok, wok) ==
    LET iff  == resolve_iff(pkt)
        fd   == outs[s]
        bind == needs_rebind(s, iff)
        bound == dev[fd].open /\ bindok
        w    == L2bpfSocket_send(s, wok)
        tr   == IF bind THEN <<BindEvent(fd, iff, bound)>> ELSE <<>>
    IN  IF iff = RouteFails
          THEN [ret |-> Raised("RouteError"), trace |-> <<>>, iff |-> iff,
                assigned |-> assigned_interface[s], dev |-> dev]
        ELSE IF bind /\ ~bound
          THEN [ret |-> Raised("Scapy_Exception"), trace |-> tr, iff |-> iff,
                assigned |-> iff, dev |-> dev]
        ELSE [ret |-> IF w.ret.kind = "raise" THEN w.ret ELSE ReturnedNone,
              trace |-> tr \o w.trace, iff |-> iff,
              assigned |-> IF bind THEN iff ELSE assigned_interface[s],
              dev |-> IF bind THEN [dev EXCEPT ![fd].iface = iff] ELSE dev]

\* L3bpfSocket.send(pkt); bindok and wok say whether the BIOCSETIF ioctl and
\* the write succeed on an open descriptor
L3bpfSocket_send(s, pkt, bindok, wok) ==
    LET iff  == resolve_iff(pkt)
        fd   == outs[s]
        bind == needs_rebind(s, iff)
        bound == dev[fd].open /\ bindok
        w    == L2bpfSocket_send(s, wok)
        tr   == IF bind THEN <<BindEvent(fd, iff, bound)>> ELSE <<>>
    IN  IF iff = RouteFails
          THEN [ret |-> Raised("RouteError"), trace |-> <<>>, iff |-> iff,
                assigned |-> assigned_interface[s], dev |-> dev]
        ELSE IF bind /\ ~bound
          THEN [ret |-> Raised("Scapy_Exception"), trace |-> tr, iff |-> iff,
                assigned |-> assigned_interface[s], dev |-> dev]
        ELSE [ret |-> IF w.ret.kind = "raise" THEN w.ret ELSE ReturnedNone,
              trace |-> tr \o w.trace, iff |-> iff,
              assigned |-> IF bind THEN iff ELSE assigned_interface[s],
              dev |-> IF bind THEN [dev EXCEPT ![fd].iface = iff] ELSE dev]

\* L2bpfSocket.send(x) on an L2bpfSocket
SendL2(s) ==
    /\ cls[s] = "L2bpfSocket"
    /\ \E wok \in BOOLEAN :
         /\ op' = [name |-> "send", self |-> s]
         /\ ret' = L2bpfSocket_send(s, wok).ret
         /\ trace' = L2bpfSocket_send(s, wok).trace
    /\ UNCHANGED <<FREEBSD, debug_dissector, cls, ins, outs, closed,
                   fd_flags, assigned_interface, received_frames, dev,
                   reads, decoded, delivered>>

\* L3bpfSocket.send(pkt)
SendL3(s) ==
    /\ cls[s] = "L3bpfSocket"
    /\ \E pkt \in Pkts, bindok \in BOOLEAN, wok \in BOOLEAN :
         LET r == L3bpfSocket_send(s, pkt, bindok, wok)
         IN  /\ op' = [name |-> "send", self |-> s, pkt |-> pkt, iff |-> r.iff]
             /\ ret' = r.ret
             /\ trace' = r.trace
             /\ assigned_interface' = [assigned_interface EXCEPT ![s] = r.assigned]
             /\ dev' = r.dev
    /\ UNCHANGED <<FREEBSD, debug_dissector, cls, ins, outs, closed,
                   fd_flags, received_frames, reads, decoded, delivered>>

---------------------------------------------------------------------------
(* isBPFSocket and bpf_select. *)

Descriptors == Socks \cup PlainFds

\* isinstance(obj, c): L2bpfSocket and L3bpfSocket derive from
\* L2bpfListenSocket, L3bpfSocket from L2bpfSocket
IsInstance(obj, c) ==
    /\ obj \in Socks
    /\ \/ cls[obj] = c
       \/ c = "L2bpfListenSocket" /\ cls[obj] \in {"L2bpfSocket", "L3bpfSocket"}
       \/ c = "L2bpfSocket" /\ cls[obj] = "L3bpfSocket"

\* a type test that leaves the subclasses out
isBPFSocket_exact(obj) == obj \in Socks /\ cls[obj] = "L2bpfListenSocket"

isBPFSocket(obj) ==
    \/ IsInstance(obj, "L2bpfListenSocket")
    \/ IsInstance(obj, "L2bpfListenSocket")
    \/ IsInstance(obj, "L3bpfSocket")

\* select()'s timeout, in hundredths of a time unit, when none is given
DefaultTimeout == 5

\* timeouts a caller gives, in the same unit: none, zero (a poll) and one unit
Timeouts == {None, 0, 100}

Buffered(d) == isBPFSocket(d) /\ buffered_frames(d) # 0

bpf_scks_buffered(fds_list) == SelectSeq(fds_list, Buffered)

NotBuffered(d) == ~Buffered(d)

\* a partition that hands every descriptor to select()
select_fds_all(fds_list) == fds_list

select_fds(fds_list) == SelectSeq(fds_list, NotBuffered)

\* the lists select() may return for the list l: the members that are ready,
\* in the order of l
RECURSIVE SubLists(_)
SubLists(l) ==
    IF l = <<>> THEN {<<>>}
    ELSE LET rest == SubLists(Tail(l))
         IN  rest \cup {<<Head(l)>> \o r : r \in rest}

SelectEvent(l, timeout) == [call |-> "select", fds |-> l, timeout |-> timeout]

\* bpf_select(fds_list, timeout) when select() returns ready_list; select()
\* asks every object for its fileno(), and refuses the None of a closed
\* socket with a TypeError
bpf_select(fds_list, timeout, ready_list) ==
    LET waited == select_fds(fds_list)
        t      == IF timeout = None THEN DefaultTimeout ELSE timeout
    IN  IF Len(waited) # 0
          THEN IF \E i \in DOMAIN waited : waited[i] \in Socks /\ ins[waited[i]] = None
                 THEN [ret |-> Raised("TypeError"),
                       trace |-> <<SelectEvent(waited, t)>>]
               ELSE [ret |-> Returned(bpf_scks_buffered(fds_list) \o ready_list),
                     trace |-> <<SelectEvent(waited, t)>>]
        ELSE [ret |-> Returned(bpf_scks_buffered(fds_list)), trace |-> <<>>]

BpfSelect ==
    \E fds_list \in SeqsUpTo(Descriptors, MaxFds), timeout \in Timeouts :
        \E ready_list \in SubLists(select_fds(fds_list)) :
            /\ op' = [name |-> "bpf_select", fds |-> fds_list, timeout |-> timeout]
            /\ ret' = bpf_select(fds_list, timeout, ready_list).ret
            /\ trace' = bpf_select(fds_list, timeout, ready_list).trace
            /\ UNCHANGED <<FREEBSD, debug_dissector, cls, ins, outs, closed,
                           fd_flags, assigned_interface, received_frames, dev,
                           reads, decoded, delivered>>

---------------------------------------------------------------------------
(* Direct calls of extract_frames and get_frame. *)

\* extract_frames(bpf_buffer) on a buffer of well-formed frames; op records
\* the frames the device packed into it
ExtractFrames(s) ==
    /\ Len(received_frames) <= 1
    /\ \E fs \in FrameLists, padlast \in BOOLEAN :
         LET b == EncodeBuffer(fs, padlast)
             x == extract_frames(b)
         IN  /\ received_frames' = self_received_frames(s) \o x.frames
             /\ op' = [name |-> "extract_frames", self |-> s,
                       bpf_buffer |-> b, packed |-> fs]
             /\ ret' = IF x.exc = "none" THEN ReturnedNone ELSE Raised(x.exc)
             /\ trace' = <<>>
    /\ UNCHANGED <<FREEBSD, debug_dissector, cls, ins, outs, closed, fd_flags,
                   assigned_interface, dev, reads, decoded, delivered>>

\* the header fields as extract_frames reads them, after the timestamp
RawHeader(caplen, datalen, hdrlen) ==
    [i \in 1..bh_tstamp_offset |-> TsByte]
      \o PackI(caplen) \o PackI(datalen) \o PackH(hdrlen)

\* a buffer of total bytes: the header fields, then the byte fill, cut off at
\* total
RawBuffer(caplen, datalen, hdrlen, total, fill) ==
    Slice(RawHeader(caplen, datalen, hdrlen) \o [i \in 1..total |-> fill],
          0, total)

\* lengths and field values of the buffers handed to extract_frames: shorter
\* than a header, exactly one, between the two profiles' header sizes, longer
RawTotals == {0, 10, 18, 19, 20, 24, 26, 28, 48}

RawCaplens == {0, 2}

RawDatalens == {0, 1}

RawHdrlens == {0, 4, 20, 26}

RawBuffers ==
    {RawBuffer(c, d, h, t, f) :
        c \in RawCaplens, d \in RawDatalens, h \in RawHdrlens,
        t \in RawTotals, f \in {0, 1}}

\* extract_frames(bpf_buffer) on any bytes
ExtractBytes(s) ==
    /\ Len(received_frames) <= 1
    /\ \E b \in RawBuffers :
         LET x == extract_frames(b)
         IN  /\ received_frames' = self_received_frames(s) \o x.frames
             /\ op' = [name |-> "extract_frames", self |-> s, bpf_buffer |-> b]
             /\ ret' = IF x.exc = "none" THEN ReturnedNone ELSE Raised(x.exc)
             /\ trace' = <<>>
    /\ UNCHANGED <<FREEBSD, debug_dissector, cls, ins, outs, closed, fd_flags,
                   assigned_interface, dev, reads, decoded, delivered>>

GetFrame(s) ==
    /\ received_frames' = get_frame(s, self_received_frames(s)).queue
    /\ op' = [name |-> "get_frame", self |-> s]
    /\ ret' = get_frame(s, self_received_frames(s)).ret
    /\ trace' = <<>>
    /\ UNCHANGED <<FREEBSD, debug_dissector, cls, ins, outs, closed, fd_flags,
                   assigned_interface, dev, reads, decoded, delivered>>

---------------------------------------------------------------------------
(* The specifications. *)

\* receiving on two sockets and closing them
Next ==
    \E s \in Socks :
        \/ Recv(s)
        \/ Close(s)

Spec == Init /\ [][Next]_vars

\* every method of one L2bpfSocket
NextLife ==
    \E s \in {"A"} :
        \/ Recv(s)
        \/ NonblockRecv(s)
        \/ SetNonblock(s)
        \/ GetStats(s)
        \/ SendL2(s)
        \/ Close(s)

\* the platform does not matter to them: the narrow-timestamp one
InitLife == Init /\ ~FREEBSD

SpecLife == InitLife /\ [][NextLife]_vars

\* sending on the L2bpfSocket and on the L3bpfSocket, and closing them
NextSend ==
    \/ SendL2("A")
    \/ SendL3("B")
    \/ \E s \in Socks : Close(s)

SpecSend == Init /\ [][NextSend]_vars

\* on one platform: receiving on a socket, closing the other, and waiting on
\* them and on a plain descriptor
InitSelect == Init /\ ~FREEBSD /\ ~debug_dissector

NextSelect ==
    \/ Recv("A")
    \/ Close("B")
    \/ BpfSelect

SpecSelect == InitSelect /\ [][NextSelect]_vars

\* the decoder alone
NextDecode ==
    \E s \in {"A"} :
        \/ ExtractFrames(s)
        \/ GetFrame(s)

SpecDecode == Init /\ [][NextDecode]_vars

\* the decoder on arbitrary bytes
NextBytes ==
    \E s \in {"A"} :
        \/ ExtractBytes(s)
        \/ GetFrame(s)

SpecBytes == Init /\ [][NextBytes]_vars

\* before any socket is constructed: no descriptor, the class attributes
InitConstruct ==
    /\ FREEBSD = FALSE
    /\ debug_dissector = FALSE
    /\ cls = [s \in Socks |-> ClassOf(s)]
    /\ ins = [s \in Socks |-> None]
    /\ outs = [s \in Socks |-> None]
    /\ closed = [s \in Socks |-> FALSE]
    /\ fd_flags = [s \in Socks |-> None]
    /\ assigned_interface = [s \in Socks |-> Unset]
    /\ received_frames = <<>>
    /\ dev = [f \in Fds |-> [open |-> FALSE, flags |-> O_RDWR, iface |-> Unset,
                             closes |-> 0, config |-> <<>>]]
    /\ op = [name |-> "import"]
    /\ ret = ReturnedNone
    /\ trace = <<>>
    /\ reads = 0
    /\ decoded = [s \in Socks |-> <<>>]
    /\ delivered = [s \in Socks |-> <<>>]

\* constructing one socket, and closing it
NextConstruct ==
    \E s \in {"A"} :
        \/ Construct(s)
        \/ Close(s)

SpecConstruct == InitConstruct /\ [][NextConstruct]_vars

---------------------------------------------------------------------------
(* The claims. *)

IsPrefix(p, q) == Len(p) <= Len(q) /\ SubSeq(q, 1, Len(p)) = p

ReceiveOps == {"recv", "nonblock_recv"}

\* every device call of the trace tr that reached the descriptor fd
CallsOn(tr, fd) == {i \in DOMAIN tr : tr[i].call # "warning"
                                       /\ tr[i].call # "select"
                                       /\ tr[i].fd = fd}

\* C1: the Receive Queue is owned by one socket: a recv or nonblock_recv on a
\* socket a leaves the number of frames buffered on every other socket b, and
\* so what b.recv() returns next, as it was.
C1_QueueOwnedBySocket ==
    [][\A a \in Socks, b \in Socks :
          (op'.name \in ReceiveOps /\ op'.self = a /\ b # a)
              => buffered_frames(b)' = buffered_frames(b)]_vars

\* C2: nonblock_recv() leaves the descriptor in the blocking mode it found it
\* in, on every exit path.  Stated for the calls in which the kernel carries
\* out every fcntl the method issues, so that only the method decides.
C2_NonblockRecvRestoresMode ==
    [][(/\ op'.name = "nonblock_recv"
        /\ ins[op'.self] # None
        /\ \A i \in DOMAIN trace' : trace'[i].call # "warning" => trace'[i].ok
              \/ trace'[i].call = "read")
          => NonBlocking(dev'[Fd(op'.self)].flags)
               = NonBlocking(dev[Fd(op'.self)].flags)]_vars

\* C3: after close() every operation on the socket fails and issues no call
\* on the descriptor number that was closed.
C3_ClosedSocketFails ==
    (/\ op.name \in {"recv", "nonblock_recv", "send", "set_nonblock", "get_stats"}
     /\ closed[op.self])
        => /\ ret.kind = "raise"
           /\ CallsOn(trace, Fd(op.self)) = {}

\* the interface each family's routing table gives, the default interface
\* for a packet of neither family
iff_by_family(pkt) ==
    IF pkt.family = "IPv6" THEN route6(pkt.dst)
    ELSE IF pkt.family = "IP" THEN route(pkt.dst)
    ELSE conf_iface

\* C4: L3bpfSocket.send sends an IP or IPv6 packet through the interface its
\* family's routing table gives for pkt.dst, any other packet through the
\* default interface.
C4_InterfaceByFamily ==
    (op.name = "send" /\ cls[op.self] = "L3bpfSocket")
        => op.iff = iff_by_family(op.pkt)

\* C5: bpf_select returns every BPF socket of its list that has buffered
\* frames and never hands it to select(); when the whole list is such
\* sockets, select() is not called.
C5_BufferedSocketsReady ==
    op.name = "bpf_select" =>
        LET fds == op.fds
            HasFrames(i) == fds[i] \in Socks /\ buffered_frames(fds[i]) > 0
        IN  /\ \A i \in DOMAIN fds :
                  HasFrames(i) =>
                      /\ ret.kind = "value"
                      /\ \E j \in DOMAIN ret.val : ret.val[j] = fds[i]
                      /\ \A k \in Calls(trace, "select") :
                            \A j \in DOMAIN trace[k].fds : trace[k].fds[j] # fds[i]
            /\ (\A i \in DOMAIN fds : HasFrames(i)) => Calls(trace, "select") = {}

\* C5's case: a list with a socket that has frames and a plain descriptor;
\* select() was called, and the socket is in the result
C5_Witness ==
    /\ op.name = "bpf_select"
    /\ \E i \in DOMAIN op.fds : op.fds[i] \in Socks /\ buffered_frames(op.fds[i]) > 0
    /\ \E i \in DOMAIN op.fds : op.fds[i] \in PlainFds
    /\ Calls(trace, "select") # {}
    /\ ret.kind = "value"

\* C6: the frames a socket's recv/nonblock_recv calls return are, in order,
\* the frames decoded from that socket's device reads: none twice, none
\* skipped, none out of order.
C6_ArrivalOrder ==
    \A s \in Socks : IsPrefix(delivered[s], decoded[s])

\* the offset of the i-th frame in a buffer of the frames fs
RECURSIVE FrameStart(_, _)
FrameStart(fs, i) ==
    IF i = 1 THEN 0
    ELSE FrameStart(fs, i - 1)
           + WordAlign(fs[i - 1].hdrlen + Len(fs[i - 1].load))

\* the frame extract_frames queues for a payload: typed, or opaque bytes
FrameOf(load) == IF Dissects(load) THEN Typed(load) ELSE Raw(load)

\* C7: on a buffer of N well-formed frames, each at the aligned offset after
\* the one before, extract_frames appends exactly N frames in buffer order;
\* the i-th holds the bytes buffer[hdrlen : hdrlen + caplen] counted from the
\* i-th header, which are the bytes that were encoded.  A well-formed frame
\* has a header that holds its fields, a non-zero on-wire length, and a
\* payload that is not malformed (it dissects, or debug-dissection is off and
\* it is kept as opaque bytes).
C7_WellFormedFramesDecoded ==
    [][(/\ op'.name = "extract_frames"
        /\ \A i \in DOMAIN op'.packed :
              Dissects(op'.packed[i].load) \/ ~debug_dissector)
          => LET fs == op'.packed
                 b  == op'.bpf_buffer
                 at(i) == FrameStart(fs, i) + fs[i].hdrlen
             IN  /\ ret' = ReturnedNone
                 /\ received_frames'
                      = received_frames \o [i \in DOMAIN fs |-> FrameOf(fs[i].load)]
                 /\ \A i \in DOMAIN fs :
                       received_frames'[Len(received_frames) + i].load
                         = Slice(b, at(i), at(i) + Len(fs[i].load))]_vars

\* C7's case: two frames, the first followed by padding, appended behind a
\* frame that was queued before
C7_Witness ==
    /\ op.name = "extract_frames"
    /\ Len(op.packed) = 2
    /\ WordAlign(op.packed[1].hdrlen + Len(op.packed[1].load))
         # op.packed[1].hdrlen + Len(op.packed[1].load)
    /\ op.packed[2].load # <<>>
    /\ ret = ReturnedNone
    /\ Len(received_frames) = 3
    /\ received_frames[3].load = op.packed[2].load

BindCalls(tr) == Cardinality(Calls(tr, "BIOCSETIF"))

IsL3Send(o) == o.name = "send" /\ cls[o.self] = "L3bpfSocket"

\* C8 as amended: a send issues one BIOCSETIF call if the interface it
\* resolved differs from assigned_interface and none otherwise; a send that
\* follows a send whose bind did not fail and resolves the same interface
\* issues none.
C8_RebindIffInterfaceDiffers ==
    [][IsL3Send(op') =>
          LET s == op'.self
          IN  /\ BindCalls(trace')
                   = IF op'.iff # RouteFails /\ op'.iff # assigned_interface[s]
                       THEN 1 ELSE 0
              /\ (/\ IsL3Send(op) /\ op.self = s
                  /\ op.iff # RouteFails
                  /\ ret # Raised("Scapy_Exception")
                  /\ op'.iff = op.iff)
                    => BindCalls(trace') = 0]_vars

\* C8 as claimed: a send that issued a rebind call is followed, on a send to
\* the same destination, by no rebind call.
C8_SecondSendNoRebind ==
    [][(/\ IsL3Send(op) /\ IsL3Send(op')
        /\ op'.self = op.self
        /\ op'.pkt = op.pkt
        /\ BindCalls(trace) = 1)
          => BindCalls(trace') = 0]_vars

\* C8's case: a send on the interface the send before it bound, with no
\* rebind call
C8_Witness ==
    /\ IsL3Send(op)
    /\ op.iff = "em1"
    /\ assigned_interface[op.self] = "em1"
    /\ dev[outs[op.self]].iface = "em1"
    /\ BindCalls(trace) = 0
    /\ ret = ReturnedNone

CloseOps == {"close", "__del__"}

\* C9: close() is idempotent: the first call releases the descriptor, every
\* later close (explicit or the finalizer's) releases nothing, raises nothing
\* and leaves the socket and the device as the first call left them.
C9_CloseIdempotent ==
    [][op'.name \in CloseOps =>
          LET s == op'.self
          IN  /\ ret' = ReturnedNone
              /\ \A f \in Fds : dev'[f].closes <= 1
              /\ closed'[s] /\ ins'[s] = None /\ dev'[Fd(s)].closes = 1
              /\ ~closed[s] => trace' = <<Sys("close", Fd(s), TRUE)>>
              /\ closed[s] =>
                    /\ trace' = <<>>
                    /\ UNCHANGED <<ins, outs, closed, fd_flags,
                                   assigned_interface, received_frames, dev>>]_vars

\* C9's case: a close of a socket that was closed before
C9_Witness ==
    /\ op.name \in CloseOps
    /\ trace = <<>>
    /\ closed[op.self]
    /\ dev[Fd(op.self)].closes = 1

\* what recv hands out for the frame f at the front of the queue
Handed(s, f) == IF cls[s] = "L3bpfSocket" THEN payload(f) ELSE f

DeviceReads(tr) == {i \in Calls(tr, "read") : tr[i].fd # None}

\* C10 as amended: with frames queued recv() returns the front frame (on an
\* L3bpfSocket its payload), shortens the queue by one and reads nothing.
\* With the queue empty an open socket reads the device once: a failed read
\* gives no data and leaves the queue empty; a buffer is decoded, its frames
\* are appended in order and the front one is returned, or no data if there
\* is none; if decoding raises, the frames decoded before stay queued and the
\* error propagates.  A closed socket with an empty queue raises without a
\* device read.
C10_RecvDrainsQueueFirst ==
    [][op'.name = "recv" =>
          LET s == op'.self
              q == received_frames
          IN  IF q # <<>>
                THEN /\ ret' = Returned(Handed(s, Head(q)))
                     /\ received_frames' = Tail(q)
                     /\ trace' = <<>>
              ELSE IF closed[s]
                THEN /\ ret'.kind = "raise"
                     /\ DeviceReads(trace') = {}
                     /\ received_frames' = q
              ELSE /\ Cardinality(DeviceReads(trace')) = 1
                   /\ Cardinality(Calls(trace', "read")) = 1
                   /\ LET ev == trace'[1]
                          x  == extract_frames(ev.data)
                      IN  IF ~ev.ok
                            THEN ret' = ReturnedNone /\ received_frames' = q
                          ELSE IF x.exc # "none"
                            THEN /\ ret' = Raised(x.exc)
                                 /\ received_frames' = x.frames
                          ELSE IF x.frames = <<>>
                            THEN ret' = ReturnedNone /\ received_frames' = q
                          ELSE /\ ret' = Returned(Handed(s, Head(x.frames)))
                               /\ received_frames' = Tail(x.frames)]_vars

\* C10 as claimed: recv() returns the front frame of the queue, or reads the
\* device exactly once and returns the front frame decoded or no data.
C10_RecvReturnsFrontFrame ==
    [][op'.name = "recv" =>
          LET s == op'.self
              q == received_frames
          IN  IF q # <<>>
                THEN /\ ret' = Returned(Head(q))
                     /\ received_frames' = Tail(q)
                     /\ DeviceReads(trace') = {}
              ELSE /\ Cardinality(DeviceReads(trace')) = 1
                   /\ LET x == extract_frames(trace'[1].data)
                      IN  IF ~trace'[1].ok \/ x.frames = <<>>
                            THEN ret' = ReturnedNone /\ received_frames' = q
                          ELSE /\ ret' = Returned(Head(x.frames))
                               /\ received_frames' = Tail(x.frames)]_vars

\* C10's case: a recv on an empty queue that read two frames, returned the
\* first and left the second queued
C10_Witness ==
    /\ op.name = "recv"
    /\ Len(trace) = 1 /\ trace[1].call = "read" /\ trace[1].ok
    /\ Len(extract_frames(trace[1].data).frames) = 2
    /\ ret = Returned(Handed(op.self, extract_frames(trace[1].data).frames[1]))
    /\ received_frames = Tail(extract_frames(trace[1].data).frames)


\* the frames of fs from the first one on that does not dissect
FirstBad(fs) ==
    IF \E i \in DOMAIN fs : fs[i].load # <<>> /\ fs[i].load[1] = BadByte
      THEN CHOOSE i \in DOMAIN fs :
              /\ fs[i].load # <<>> /\ fs[i].load[1] = BadByte
              /\ \A j \in 1..(i - 1) : fs[j].load = <<>> \/ fs[j].load[1] # BadByte
      ELSE Len(fs) + 1

\* C11: a payload the frame class cannot dissect does not stop
\* extract_frames when debug-dissection is off: it queues an opaque frame
\* with the same bytes and goes on with the frames that follow, so every
\* frame of the buffer is queued and nothing is raised.  With
\* debug-dissection on the failure is raised, the frames before it stay
\* queued, and nothing is raised when every payload dissects.
C11_DecodeFailureFallsBack ==
    [][op'.name = "extract_frames" =>
          LET fs  == op'.packed
              q   == received_frames
              q2  == received_frames'
              bad == FirstBad(fs)
              Opaque(i) == fs[i].load # <<>> /\ fs[i].load[1] = BadByte
          IN  IF ~debug_dissector \/ bad > Len(fs)
                THEN /\ ret' = ReturnedNone
                     /\ Len(q2) = Len(q) + Len(fs)
                     /\ SubSeq(q2, 1, Len(q)) = q
                     /\ \A i \in DOMAIN fs :
                           /\ q2[Len(q) + i].load = fs[i].load
                           /\ (q2[Len(q) + i].cls = "Raw") = Opaque(i)
                ELSE /\ ret' = Raised("dissect")
                     /\ Len(q2) = Len(q) + bad - 1
                     /\ SubSeq(q2, 1, Len(q)) = q
                     /\ \A i \in 1..(bad - 1) :
                           q2[Len(q) + i].load = fs[i].load]_vars

\* C11's case: debug-dissection off, a frame that does not dissect followed
\* by one that does; both are queued, the first as opaque bytes
C11_Witness ==
    /\ op.name = "extract_frames"
    /\ ~debug_dissector
    /\ Len(op.packed) = 2
    /\ op.packed[1].load = <<BadByte, 5>>
    /\ op.packed[2].load = <<2, 3, 4>>
    /\ ret = ReturnedNone
    /\ Len(received_frames) >= 2
    /\ received_frames[Len(received_frames) - 1] = [cls |-> "Raw", load |-> <<BadByte, 5>>]
    /\ received_frames[Len(received_frames)].cls = guessed_cls


\* C12: a send on an L3bpfSocket whose route lookup or BIOCSETIF call fails
\* raises, writes nothing to the device and leaves assigned_interface and
\* the device's binding as they were; after every send assigned_interface is
\* the interface the device is bound to.
C12_FailedSendChangesNothing ==
    [][IsL3Send(op') =>
          LET s == op'.self
              routed == op'.iff # RouteFails
              bindfailed == \E i \in Calls(trace', "BIOCSETIF") : ~trace'[i].ok
          IN  /\ (~routed \/ bindfailed) =>
                    /\ ret'.kind = "raise"
                    /\ Calls(trace', "write") = {}
                    /\ assigned_interface'[s] = assigned_interface[s]
                    /\ dev' = dev
              /\ ~routed => trace' = <<>>
              /\ assigned_interface'[s] = dev'[outs[s]].iface]_vars

\* C12's case: a send to another interface than the bound one, on an open
\* device, whose BIOCSETIF call failed
C12_Witness ==
    /\ IsL3Send(op)
    /\ dev[outs[op.self]].open
    /\ op.iff = "em1"
    /\ trace = <<BindEvent(outs[op.self], "em1", FALSE)>>
    /\ ret = Raised("Scapy_Exception")
    /\ assigned_interface[op.self] = "em0"
    /\ dev[outs[op.self]].iface = "em0"


\* the failed device reads of the trace tr
FailedReads(tr) == {i \in DeviceReads(tr) : ~tr[i].ok}

\* C13: a device read that fails, with EAGAIN or with any other errno, makes
\* recv() return None and raise nothing; the queue is left as it was, and a
\* warning is issued exactly when the errno is not EAGAIN.
C13_FailedReadGivesNoData ==
    [][(op'.name = "recv" /\ FailedReads(trace') # {}) =>
          /\ ret' = ReturnedNone
          /\ received_frames' = received_frames
          /\ Cardinality(DeviceReads(trace')) = 1
          /\ \A i \in FailedReads(trace') :
                (Calls(trace', "warning") # {}) = (trace'[i].errno # "EAGAIN")]_vars

\* C13's case: a recv on a non-blocking descriptor whose read would block
C13_Witness ==
    /\ op.name = "recv"
    /\ trace = <<ReadError(ins[op.self], "EAGAIN")>>
    /\ NonBlocking(dev[ins[op.self]].flags)
    /\ ret = ReturnedNone
    /\ received_frames = <<>>


\* the calls of the trace tr to the fcntl command cmd that failed
FailedCalls(tr, cmd) == {i \in Calls(tr, cmd) : ~tr[i].ok}

\* C19 as amended: after every call the cached fd_flags of a socket is unset
\* or equal to the flags of its descriptor.  A set_nonblock whose F_GETFL
\* fails leaves the descriptor and the cache as they were; one whose F_SETFL
\* fails leaves the descriptor as it was and the cache holding either what it
\* held or, if it was unset, the flags the call has just read.
C19_CacheMatchesDescriptor ==
    [][/\ \A s \in Socks :
            fd_flags'[s] = None \/ fd_flags'[s] = dev'[Fd(s)].flags
       /\ op'.name = "set_nonblock" =>
            LET s == op'.self
            IN  /\ FailedCalls(trace', "F_GETFL") # {} =>
                      /\ dev' = dev
                      /\ fd_flags' = fd_flags
                      /\ Calls(trace', "F_SETFL") = {}
                /\ FailedCalls(trace', "F_SETFL") # {} =>
                      /\ dev' = dev
                      /\ fd_flags'[s] = IF fd_flags[s] = None
                                          THEN dev[Fd(s)].flags
                                          ELSE fd_flags[s]]_vars

\* C19 as claimed: a set_nonblock whose write of the flags fails leaves the
\* cache unchanged.
C19_WriteFailureKeepsCache ==
    [][(op'.name = "set_nonblock" /\ FailedCalls(trace', "F_SETFL") # {})
          => fd_flags' = fd_flags]_vars

\* C19's case: a set_nonblock(True) on a blocking descriptor with its flags
\* cached, whose F_SETFL failed
C19_Witness ==
    /\ op.name = "set_nonblock"
    /\ op.set_flag
    /\ ins[op.self] # None
    /\ trace = <<Sys("F_SETFL", ins[op.self], FALSE), Warning>>
    /\ fd_flags[op.self] = O_RDWR
    /\ dev[ins[op.self]].flags = O_RDWR


\* C18: bpf_select splits its list in two: the BPF sockets with frames
\* queued, which it returns without waiting on them, and every other
\* descriptor, which it hands to select(), all of them and only them, with
\* the caller's timeout or 0.05 when there is none.  It returns the first
\* group in the order of the list followed by what select() returned, fails
\* only when select() refuses a closed socket, and changes no queue.
C18_SelectPartitions ==
    [][op'.name = "bpf_select" =>
          LET fds == op'.fds
              HasFrames(d) == d \in Socks /\ buffered_frames(d) > 0
              Waits(d) == ~HasFrames(d)
              first == SelectSeq(fds, HasFrames)
              rest  == SelectSeq(fds, Waits)
              t     == IF op'.timeout = None THEN DefaultTimeout ELSE op'.timeout
          IN  /\ received_frames' = received_frames
              /\ Len(first) + Len(rest) = Len(fds)
              /\ IF rest = <<>>
                   THEN trace' = <<>> /\ ret' = Returned(first)
                 ELSE /\ trace' = <<[call |-> "select", fds |-> rest, timeout |-> t]>>
                      /\ \/ /\ ret'.kind = "value"
                            /\ IsPrefix(first, ret'.val)
                            /\ SubSeq(ret'.val, Len(first) + 1, Len(ret'.val))
                                 \in SubLists(rest)
                         \/ /\ ret'.kind = "raise"
                            /\ \E i \in DOMAIN rest :
                                  rest[i] \in Socks /\ closed[rest[i]]]_vars

\* C18's case: a plain descriptor followed by a socket with frames queued, no
\* timeout given; select() waited on the plain descriptor alone for 0.05 and
\* the socket comes first in the result
C18_Witness ==
    /\ op.name = "bpf_select"
    /\ op.fds = <<"pipe", "A">>
    /\ op.timeout = None
    /\ buffered_frames("A") > 0
    /\ trace = <<SelectEvent(<<"pipe">>, DefaultTimeout)>>
    /\ ret = Returned(<<"A", "pipe">>)


\* C14: on a buffer shorter than 20 bytes extract_frames queues nothing,
\* raises nothing and leaves the queue as it was, on either profile.
C14_ShortBufferNoFrames ==
    [][(op'.name = "extract_frames" /\ Len(op'.bpf_buffer) < 20) =>
          /\ ret' = ReturnedNone
          /\ received_frames' = received_frames]_vars

\* C14's case: a 19-byte buffer whose on-wire length field, where the
\* narrow-timestamp profile reads it, is not zero
C14_Witness ==
    /\ op.name = "extract_frames"
    /\ ~FREEBSD
    /\ Len(op.bpf_buffer) = 19
    /\ UnpackI(Slice(op.bpf_buffer, 12, 16)) = 1
    /\ ret = ReturnedNone
    /\ Len(received_frames) = 1

\* the bytes of the on-wire length field that the buffer b holds are all zero
DatalenZero(b) ==
    \A i \in (bh_tstamp_offset + 5)..Min(bh_tstamp_offset + 8, Len(b)) : b[i] = 0

\* C15: when the header at the start of the buffer has on-wire length 0, a
\* buffer of exactly one 20-byte header included, extract_frames stops: it
\* queues nothing for it or for what follows and returns, on either profile.
C15_ZeroLengthStops ==
    [][(/\ op'.name = "extract_frames"
        /\ Len(op'.bpf_buffer) >= 20
        /\ DatalenZero(op'.bpf_buffer)) =>
          /\ ret' = ReturnedNone
          /\ received_frames' = received_frames]_vars

\* C17: extract_frames terminates on every buffer, and queues no more frames
\* (one per level of recursion) than the buffer has 20-byte headers.
C17_TerminatesWithinBound ==
    [][op'.name = "extract_frames" =>
          /\ ret' # Raised("RuntimeError")
          /\ 20 * (Len(received_frames') - Len(received_frames))
                <= Len(op'.bpf_buffer)]_vars

\* C20: on a buffer of at least 20 bytes extract_frames reads its three
\* header fields inside the buffer and raises no unpacking error, on either
\* profile.
C20_NoUnpackError ==
    [][(op'.name = "extract_frames" /\ Len(op'.bpf_buffer) >= 20)
          => ret' # Raised("struct.error")]_vars


\* the device settings in the order the specification gives them
ConfigOrder(promisc, attach) ==
    LET Wanted(c) == /\ c = "BIOCPROMISC" => promisc
                     /\ c = "attach_filter" => attach
    IN  SelectSeq(<<"BIOCSBLEN", "BIOCSETIF", "BIOCPROMISC", "BIOCIMMEDIATE",
                    "BIOCSHDRCMPLT", "attach_filter">>, Wanted)

IsConfigCall(e) ==
    e.call \in {"BIOCSBLEN", "BIOCSETIF", "BIOCPROMISC", "BIOCIMMEDIATE",
                "BIOCSHDRCMPLT", "attach_filter"}

\* C16: __init__ makes the settings in the order buffer length, interface,
\* promiscuous mode (if self.promisc), immediate mode, header-complete mode,
\* filter (if filtering is on and there is a filter).  It stops at the first
\* call that fails and raises: no later setting is made, and the settings
\* made before stay on the open descriptor.  With no failure all of them are
\* made and the constructor returns.
C16_ConfigurationOrder ==
    [][op'.name = "__init__" =>
          LET fd      == Fd(op'.self)
              prom    == IF op'.promisc = Unset THEN op'.sniff_promisc
                         ELSE op'.promisc = "True"
              attach  == /\ ~op'.nofilter
                         /\ (op'.except_filter # "" \/ op'.filter # Unset)
              order   == ConfigOrder(prom, attach)
              made    == SelectSeq(trace', IsConfigCall)
              k       == Len(made)
          IN  /\ k <= Len(order)
              /\ \A i \in 1..k : made[i].call = order[i] /\ made[i].fd = fd
              /\ \A i \in 1..(k - 1) : made[i].ok
              /\ dev'[fd].open /\ dev'[fd].closes = 0
              /\ IF k > 0 /\ ~made[k].ok
                   THEN /\ ret' = Raised("Scapy_Exception")
                        /\ trace' = made
                        /\ dev'[fd].config = SubSeq(order, 1, k - 1)
                   ELSE /\ ret' = ReturnedNone
                        /\ k = Len(order)
                        /\ dev'[fd].config = order]_vars

\* C16's case: a promiscuous socket with a filter whose BIOCIMMEDIATE call
\* failed: three settings made and kept, none after it
C16_Witness ==
    /\ op.name = "__init__"
    /\ op.promisc = "True"
    /\ op.filter = "tcp" /\ ~op.nofilter
    /\ ret = Raised("Scapy_Exception")
    /\ Len(trace) = 4
    /\ trace[4] = Sys("BIOCIMMEDIATE", Fd(op.self), FALSE)
    /\ dev[Fd(op.self)].config = <<"BIOCSBLEN", "BIOCSETIF", "BIOCPROMISC">>
    /\ dev[Fd(op.self)].open

============================================================================
